---- MODULE Spec2Model ----
(***************************************************************************)
(* A model of get_nsg_logs.py: the flow-log record decoder                 *)
(* (process_flowlog_records), the firewall-log decoder (process_fw_logs),  *)
(* argument validation, the start block with get_resource_list and         *)
(* process_resources, the filter block and the aggregate output.           *)
(*                                                                         *)
(* Python strings are sequences of one-character strings, so that          *)
(* str.split(',') is computed and not assumed.  A pandas cell is a string  *)
(* or NaN; a DataFrame is its sequence of rows together with its set of    *)
(* columns (a column exists once any concatenated row carried it).         *)
(***************************************************************************)
EXTENDS Integers, Sequences, FiniteSets, TLC

VARIABLES
    pc,              \* position in process_flowlog_records
    flow_version,    \* the local of that name; it survives loop iterations
    df_logs,         \* the local DataFrame of process_flowlog_records
    record,          \* the record of the current iteration
    pending,         \* flow tuples of the current record not yet decoded
    record_counter,  \* records read so far
    errors,          \* "ERROR: Flow version ... not supported" lines printed
    exc,             \* the exception that ended the call, "none" otherwise
    last,            \* history: what the latest step did
    fpc,             \* position in the module's filter block
    g_df_logs,       \* the module-level DataFrame df_logs
    prev_df,         \* history: g_df_logs before the latest filter statement
    opt,             \* history: the options the latest filter statement read
    totals,          \* what the aggregate print showed
    todo,            \* filter statements still to run (any-order pipeline)
    cfg,             \* the options of the any-order pipeline
    df0,             \* the DataFrame the any-order pipeline started from
    rpc,             \* position in the run: validation, start block
    args,            \* the command line of the run
    container,       \* the container the start block is at: nsg, then fw
    blob_list,       \* the blob names the container listed
    resource_list,   \* resources process_resources has not visited yet
    resource,        \* the resource of the current iteration
    dates,           \* filtered_date_list entries not visited yet
    matches,         \* blob_matches entries not read yet
    fetched,         \* history: the blobs read from the current container
    steps,           \* history: the kinds of step the run has taken
    fw_pc,           \* position in process_fw_logs
    fw_df,           \* the local DataFrame of process_fw_logs
    log_counter,     \* log entries read so far
    fw_errors,       \* "ERROR: No properties.msg found" lines printed
    fw_exc,          \* the exception that ended process_fw_logs, or "none"
    fw_last          \* history: what the latest step of process_fw_logs did

decoder_vars == <<pc, flow_version, df_logs, record, pending, record_counter,
                  errors, exc, last>>
filter_vars == <<fpc, g_df_logs, prev_df, opt, totals>>
perm_vars == <<todo, cfg, df0>>
run_vars == <<rpc, args, container, blob_list, resource_list, resource,
              dates, matches, fetched, steps>>
fw_vars == <<fw_pc, fw_df, log_counter, fw_errors, fw_exc, fw_last>>
vars == <<pc, flow_version, df_logs, record, pending, record_counter, errors,
          exc, last, fpc, g_df_logs, prev_df, opt, totals, todo, cfg, df0,
          rpc, args, container, blob_list, resource_list, resource, dates,
          matches, fetched, steps, fw_pc, fw_df, log_counter, fw_errors,
          fw_exc, fw_last>>

----------------------------------------------------------------------------
(* Bounds *)

\* records of one document
MaxRecords == 2
\* rows of the DataFrame handed to the filter block
MaxRows == 2

----------------------------------------------------------------------------
(* Strings and cells *)

Comma == ","

\* the empty string ''
EmptyStr == <<>>

\* a missing cell (numpy.nan): no string is this sequence, every character
\* being a one-character string
NaN == <<"NaN">>

\* "unbound": a local that was never assigned
Unbound == "unbound"

RECURSIVE SplitFrom(_, _, _)
SplitFrom(s, cur, acc) ==
    IF s = <<>> THEN Append(acc, cur)
    ELSE IF Head(s) = Comma
         THEN SplitFrom(Tail(s), <<>>, Append(acc, cur))
         ELSE SplitFrom(Tail(s), Append(cur, Head(s)), acc)

\* flowtuple.split(',')
split(s) == SplitFrom(s, <<>>, <<>>)

\* tuple_values[i], Python's index from 0; IndexError past the end
HasItem(tuple_values, i) == i < Len(tuple_values)
Item(tuple_values, i) == tuple_values[i + 1]

\* try: x = tuple_values[i]   except: x = ""
ItemOrEmpty(tuple_values, i) ==
    IF HasItem(tuple_values, i) THEN Item(tuple_values, i) ELSE EmptyStr

----------------------------------------------------------------------------
(* DataFrames *)

Columns == {"timestamp", "type", "resource", "rule", "state",
            "packets_src_to_dst", "bytes_src_to_dst", "packets_dst_to_src",
            "bytes_dst_to_src", "src_ip", "dst_ip", "src_port", "dst_port",
            "protocol", "direction", "action"}

CounterCols == {"bytes_src_to_dst", "packets_src_to_dst", "bytes_dst_to_src",
                "packets_dst_to_src"}

\* pd.DataFrame()
EmptyDF == [rows |-> <<>>, columns |-> {}]

\* pd.DataFrame(logrow_dict): one row; the columns are the dictionary's keys
DataFrame(logrow_dict) ==
    [rows |-> << [c \in Columns |->
                    IF c \in DOMAIN logrow_dict THEN logrow_dict[c] ELSE NaN] >>,
     columns |-> DOMAIN logrow_dict]

\* pd.concat([a, b], ignore_index=True): rows of a then rows of b, the union
\* of the columns, NaN where a row has no value for a column
concat(a, b) ==
    [rows |-> a.rows \o b.rows, columns |-> a.columns \cup b.columns]

NSG == <<"n", "s", "g">>
FW == <<"f", "w">>

----------------------------------------------------------------------------
(* process_flowlog_records: decoding one flow tuple *)

\* tuple_values[1] .. tuple_values[7] are read with no guard: IndexError when
\* the tuple has fewer than 8 fields
TupleRaises(tuple_values) == \E i \in 1..7 : ~HasItem(tuple_values, i)

\* flow_version == 1
DecodeV1(flowtuple, timestamp, resource_name, rule_name) ==
    LET tuple_values == split(flowtuple)
    IN DataFrame([timestamp |-> timestamp,
                  type      |-> NSG,
                  resource  |-> resource_name,
                  rule      |-> rule_name,
                  src_ip    |-> Item(tuple_values, 1),
                  dst_ip    |-> Item(tuple_values, 2),
                  src_port  |-> Item(tuple_values, 3),
                  dst_port  |-> Item(tuple_values, 4),
                  protocol  |-> Item(tuple_values, 5),
                  direction |-> Item(tuple_values, 6),
                  action    |-> Item(tuple_values, 7)])

\* DecodeV2 with the two ports read from each other's index
DecodeV2_PortsSwapped(flowtuple, timestamp, resource_name, rule_name) ==
    LET tuple_values == split(flowtuple)
    IN DataFrame([timestamp |-> timestamp,
                  type      |-> NSG,
                  resource  |-> resource_name,
                  rule      |-> rule_name,
                  state     |-> ItemOrEmpty(tuple_values, 8),
                  packets_src_to_dst |-> ItemOrEmpty(tuple_values, 9),
                  bytes_src_to_dst   |-> ItemOrEmpty(tuple_values, 10),
                  packets_dst_to_src |-> ItemOrEmpty(tuple_values, 11),
                  bytes_dst_to_src   |-> ItemOrEmpty(tuple_values, 12),
                  src_ip    |-> Item(tuple_values, 1),
                  dst_ip    |-> Item(tuple_values, 2),
                  src_port  |-> Item(tuple_values, 4),
                  dst_port  |-> Item(tuple_values, 3),
                  protocol  |-> Item(tuple_values, 5),
                  direction |-> Item(tuple_values, 6),
                  action    |-> Item(tuple_values, 7)])

\* flow_version == 2
DecodeV2(flowtuple, timestamp, resource_name, rule_name) ==
    LET tuple_values == split(flowtuple)
    IN DataFrame([timestamp |-> timestamp,
                  type      |-> NSG,
                  resource  |-> resource_name,
                  rule      |-> rule_name,
                  state     |-> ItemOrEmpty(tuple_values, 8),
                  packets_src_to_dst |-> ItemOrEmpty(tuple_values, 9),
                  bytes_src_to_dst   |-> ItemOrEmpty(tuple_values, 10),
                  packets_dst_to_src |-> ItemOrEmpty(tuple_values, 11),
                  bytes_dst_to_src   |-> ItemOrEmpty(tuple_values, 12),
                  src_ip    |-> Item(tuple_values, 1),
                  dst_ip    |-> Item(tuple_values, 2),
                  src_port  |-> Item(tuple_values, 3),
                  dst_port  |-> Item(tuple_values, 4),
                  protocol  |-> Item(tuple_values, 5),
                  direction |-> Item(tuple_values, 6),
                  action    |-> Item(tuple_values, 7)])

\* DecodeV4 reading the tuple as a V2 tuple: action at index 7, state at 8
DecodeV4_AsV2(flowtuple, timestamp, resource_name, rule_name) ==
    LET tuple_values == split(flowtuple)
    IN DataFrame([timestamp |-> timestamp,
                  type      |-> NSG,
                  resource  |-> resource_name,
                  rule      |-> rule_name,
                  state     |-> ItemOrEmpty(tuple_values, 8),
                  packets_src_to_dst |-> ItemOrEmpty(tuple_values, 9),
                  bytes_src_to_dst   |-> ItemOrEmpty(tuple_values, 10),
                  packets_dst_to_src |-> ItemOrEmpty(tuple_values, 11),
                  bytes_dst_to_src   |-> ItemOrEmpty(tuple_values, 12),
                  src_ip    |-> Item(tuple_values, 1),
                  dst_ip    |-> Item(tuple_values, 2),
                  src_port  |-> Item(tuple_values, 3),
                  dst_port  |-> Item(tuple_values, 4),
                  protocol  |-> Item(tuple_values, 5),
                  direction |-> Item(tuple_values, 6),
                  action    |-> Item(tuple_values, 7)])

\* flow_version == 4: the state is read at index 7, the action is the
\* constant "A", index 8 is not read
DecodeV4(flowtuple, timestamp, resource_name, rule_name) ==
    LET tuple_values == split(flowtuple)
    IN DataFrame([timestamp |-> timestamp,
                  type      |-> NSG,
                  resource  |-> resource_name,
                  rule      |-> rule_name,
                  state     |-> Item(tuple_values, 7),
                  packets_src_to_dst |-> ItemOrEmpty(tuple_values, 9),
                  bytes_src_to_dst   |-> ItemOrEmpty(tuple_values, 10),
                  packets_dst_to_src |-> ItemOrEmpty(tuple_values, 11),
                  bytes_dst_to_src   |-> ItemOrEmpty(tuple_values, 12),
                  src_ip    |-> Item(tuple_values, 1),
                  dst_ip    |-> Item(tuple_values, 2),
                  src_port  |-> Item(tuple_values, 3),
                  dst_port  |-> Item(tuple_values, 4),
                  protocol  |-> Item(tuple_values, 5),
                  direction |-> Item(tuple_values, 6),
                  action    |-> <<"A">>])

\* the branch taken for one flow tuple under the current flow_version
DecodeTupleRow(fv, flowtuple, timestamp, resource_name, rule_name) ==
    IF fv = "1" THEN DecodeV1(flowtuple, timestamp, resource_name, rule_name)
    ELSE IF fv = "2"
         THEN DecodeV2(flowtuple, timestamp, resource_name, rule_name)
         ELSE DecodeV4(flowtuple, timestamp, resource_name, rule_name)

----------------------------------------------------------------------------
(* process_flowlog_records: the records of one document *)

\* The version detection.  A record with a properties block whose Version
\* is neither 1 nor 2 assigns nothing: flow_version keeps the value the
\* previous iteration left, or is unbound in the first iteration.
DetectVersion(rec, previous) ==
    IF rec.properties
    THEN IF rec.Version = 1 THEN "1"
         ELSE IF rec.Version = 2 THEN "2"
         ELSE previous
    ELSE IF rec.flowLogVersion = 3 THEN "3"
    ELSE IF rec.flowLogVersion = 4 THEN "4"
    ELSE "unknown"

\* Dispatch with version 3 sent to the branch of version 4
Dispatch_V3AsV4(fv) ==
    IF fv \in {"1", "2"} THEN "properties"
    ELSE IF fv \in {"3", "4"} THEN "flowRecords"
    ELSE "unsupported"

\* which branch of "if (flow_version == 1) or (flow_version == 2): ...
\* elif (flow_version == 4): ... else: print(ERROR)" a version takes
Dispatch(fv) ==
    IF fv \in {"1", "2"} THEN "properties"
    ELSE IF fv = "4" THEN "flowRecords"
    ELSE "unsupported"

----------------------------------------------------------------------------
(* The documents the decoder is run on *)

RECURSIVE Join(_)
\* ",".join(fields): the flow tuple as the blob spells it
Join(fields) ==
    IF fields = <<>> THEN <<>>
    ELSE IF Len(fields) = 1 THEN fields[1]
    ELSE fields[1] \o <<Comma>> \o Join(Tail(fields))

\* time, src ip, dst ip, src port, dst port, protocol, direction, action (V4:
\* state), state, and the four counters; every field differs from the others
FullTuple == << <<"0">>, <<"s">>, <<"d">>, <<"p">>, <<"q">>, <<"T">>, <<"I">>,
                <<"D">>, <<"B">>, <<"1">>, <<"2">>, <<"3">>, <<"4", "5">> >>

\* a flow tuple with the first n fields of FullTuple
TupleOfLen(n) == Join(SubSeq(FullTuple, 1, n))

\* a "begin" tuple as Azure writes it: thirteen fields, the counters empty
BeginTuple ==
    Join(SubSeq(FullTuple, 1, 9) \o <<EmptyStr, EmptyStr, EmptyStr, EmptyStr>>)

\* record['...']['flows'][..]['flowTuples'] of one record, the rule and flow
\* nesting flattened
TupleLists == { <<>>,
                <<TupleOfLen(13)>>,
                <<TupleOfLen(8), TupleOfLen(10)>>,
                <<BeginTuple, TupleOfLen(12)>>,
                <<TupleOfLen(7), TupleOfLen(13)>>,
                <<TupleOfLen(9), TupleOfLen(1)>> }

\* A record of data['records'].  properties: the record has a properties
\* block (which then holds the flows); Version: properties.Version, 0 when
\* the key is missing; flowLogVersion: 0 when the key is missing;
\* flowRecords: the record has a flowRecords block (which then holds the
\* flows).
NsgRecords ==
    { [time |-> 1, resource |-> <<"n">>, rule |-> <<"r">>,
       properties |-> TRUE, Version |-> v, flowLogVersion |-> f,
       flowRecords |-> FALSE, flowTuples |-> tl] :
         v \in {0, 1, 2, 3}, f \in {0, 4}, tl \in TupleLists }

VnetRecords ==
    { [time |-> 1, resource |-> <<"n">>, rule |-> <<"r">>,
       properties |-> FALSE, Version |-> 0, flowLogVersion |-> f,
       flowRecords |-> TRUE, flowTuples |-> tl] :
         f \in {0, 3, 4}, tl \in TupleLists }

Records == NsgRecords \cup VnetRecords

NoRecord == [time |-> 0, resource |-> <<>>, rule |-> <<>>,
             properties |-> FALSE, Version |-> 0, flowLogVersion |-> 0,
             flowRecords |-> FALSE, flowTuples |-> <<>>]

----------------------------------------------------------------------------
(* process_flowlog_records: the state machine *)

Step(op, flowtuple) ==
    [op |-> op, flowtuple |-> flowtuple, rows_before |-> Len(df_logs.rows),
     errors_before |-> errors, version_before |-> flow_version]

DecoderInit ==
    /\ pc = "loop"
    /\ flow_version = Unbound
    /\ df_logs = EmptyDF
    /\ record = NoRecord
    /\ pending = <<>>
    /\ record_counter = 0
    /\ errors = 0
    /\ exc = "none"
    /\ last = [op |-> "none", flowtuple |-> <<>>, rows_before |-> 0,
               errors_before |-> 0, version_before |-> Unbound]

\* One iteration of "for record in data['records']" up to the loops over the
\* flow tuples: the version is detected and the branch chosen.
BeginRecord(rec) ==
    /\ pc = "loop"
    /\ record_counter < MaxRecords
    /\ record_counter' = record_counter + 1
    /\ record' = rec
    /\ last' = Step("record", <<>>)
    /\ LET fv == DetectVersion(rec, flow_version)
       IN /\ flow_version' = fv
          /\ IF fv = Unbound
             THEN \* "if (flow_version == 1)" reads an unassigned local
                  /\ pc' = "raised"
                  /\ exc' = "UnboundLocalError"
                  /\ UNCHANGED <<pending, errors>>
             ELSE IF Dispatch(fv) = "properties"
             THEN \* record['properties']['flows']
                  /\ pc' = "tuples"
                  /\ pending' = rec.flowTuples
                  /\ UNCHANGED <<errors, exc>>
             ELSE IF Dispatch(fv) = "flowRecords"
             THEN \* record['flowRecords']['flows']
                  IF rec.flowRecords
                  THEN /\ pc' = "tuples"
                       /\ pending' = rec.flowTuples
                       /\ UNCHANGED <<errors, exc>>
                  ELSE /\ pc' = "raised"
                       /\ exc' = "KeyError"
                       /\ UNCHANGED <<pending, errors>>
             ELSE \* print("ERROR: Flow version", flow_version, "not supported")
                  /\ pc' = "loop"
                  /\ errors' = errors + 1
                  /\ UNCHANGED <<pending, exc>>
    /\ UNCHANGED df_logs

\* One iteration of "for flowtuple in ...['flowTuples']"
DecodeTuple ==
    /\ pc = "tuples"
    /\ pending # <<>>
    /\ last' = Step("tuple", Head(pending))
    /\ IF TupleRaises(split(Head(pending)))
       THEN /\ pc' = "raised"
            /\ exc' = "IndexError"
            /\ UNCHANGED <<df_logs, pending>>
       ELSE /\ df_logs' = concat(df_logs,
                                 DecodeTupleRow(flow_version, Head(pending),
                                                record.time, record.resource,
                                                record.rule))
            /\ pending' = Tail(pending)
            /\ UNCHANGED <<pc, exc>>
    /\ UNCHANGED <<flow_version, record, record_counter, errors>>

\* the flow tuples of the record are exhausted: next record
EndRecord ==
    /\ pc = "tuples"
    /\ pending = <<>>
    /\ pc' = "loop"
    /\ last' = Step("endrecord", <<>>)
    /\ UNCHANGED <<flow_version, df_logs, record, pending, record_counter,
                   errors, exc>>

\* data['records'] is exhausted: return df_logs
Return ==
    /\ pc = "loop"
    /\ pc' = "returned"
    /\ last' = Step("return", <<>>)
    /\ UNCHANGED <<flow_version, df_logs, record, pending, record_counter,
                   errors, exc>>

----------------------------------------------------------------------------
(* The command-line options the filter block reads *)

\* an option that was not given
None == <<"None">>

\* "if args.x:" - None and '' are false
Truthy(x) == x \notin {None, EmptyStr}

\* the address of the Azure load balancer, '168.63.129.16'
LB_IP == <<"1", "6", "8", ".", "6", "3", ".", "1", "2", "9", ".", "1", "6">>

\* pd.Timestamp.utcnow(), on the scale of the records' times
utcnow == 3

\* every filter switched off
NoFilterArgs ==
    [display_lb         |-> TRUE,
     display_only_drops |-> FALSE,
     flow_state_filter  |-> None,
     display_direction  |-> "both",
     port_filter        |-> None,
     ip_filter          |-> None,
     ip2_filter         |-> None,
     protocol_filter    |-> None,
     only_non_zero      |-> FALSE,
     no_counters        |-> FALSE,
     display_minutes    |-> 0,
     aggregate          |-> FALSE,
     no_output          |-> FALSE]

\* The values each statement of the filter block may find in the options it
\* reads, the other options left as in NoFilterArgs.  display_direction has
\* passed the validation of the start of the script.
ArgsFor(stmt) ==
    CASE stmt = "lb" ->
           { [NoFilterArgs EXCEPT !.display_lb = b] : b \in BOOLEAN }
      [] stmt = "drops" ->
           { [NoFilterArgs EXCEPT !.display_only_drops = b] : b \in BOOLEAN }
      [] stmt = "state" ->
           { [NoFilterArgs EXCEPT !.flow_state_filter = v] :
               v \in {None, <<"B">>} }
      [] stmt = "direction" ->
           { [NoFilterArgs EXCEPT !.display_direction = v] :
               v \in {"in", "out", "both"} }
      [] stmt = "port" ->
           { [NoFilterArgs EXCEPT !.port_filter = v] : v \in {None, <<"q">>} }
      [] stmt = "ip" ->
           { [NoFilterArgs EXCEPT !.ip_filter = v, !.ip2_filter = w] :
               v \in {None, <<"s">>}, w \in {None, <<"d">>} }
      [] stmt = "protocol" ->
           { [NoFilterArgs EXCEPT !.protocol_filter = v] :
               v \in {None, <<"T">>} }
      [] stmt = "nonzero" ->
           { [NoFilterArgs EXCEPT !.only_non_zero = b] : b \in BOOLEAN }
      [] stmt = "nocounters" ->
           { [NoFilterArgs EXCEPT !.no_counters = b] : b \in BOOLEAN }
      [] stmt = "minutes" ->
           { [NoFilterArgs EXCEPT !.display_minutes = m] : m \in {0, 1, 2} }
      [] stmt = "output" ->
           { [NoFilterArgs EXCEPT !.aggregate = b, !.no_output = c] :
               b \in BOOLEAN, c \in BOOLEAN }
      [] OTHER -> { NoFilterArgs }

----------------------------------------------------------------------------
(* The filter block: one operator per statement *)

\* df[mask]: the rows the mask keeps, in their order; the columns stay
Filter(df, Keep(_)) == [df EXCEPT !.rows = SelectSeq(df.rows, Keep)]

\* df['c'] raises KeyError when the frame has no column c
Missing(df, cols) == \E c \in cols : c \notin df.columns

\* if not display_lb: df_logs[df_logs['src_ip'] != '168.63.129.16'], inside
\* try/except: a missing column is reported and the frame left as it is
LbFilter(df, a) ==
    LET Keep(r) == r.src_ip # LB_IP
    IN IF a.display_lb \/ Missing(df, {"src_ip"}) THEN df ELSE Filter(df, Keep)

\* if display_only_drops: df_logs[df_logs['action'] == 'D']
DropsFilter(df, a) ==
    LET Keep(r) == r.action = <<"D">>
    IN IF a.display_only_drops THEN Filter(df, Keep) ELSE df

\* if args.flow_state_filter: state matches, or the row is not an NSG row
StateFilter(df, a) ==
    LET Keep(r) == r.state = a.flow_state_filter \/ r.type # NSG
    IN IF Truthy(a.flow_state_filter) THEN Filter(df, Keep) ELSE df

\* DirectionFilter without the exemption of the rows that are not NSG rows
DirectionFilter_NoExemption(df, a) ==
    LET KeepIn(r) == r.direction = <<"I">>
        KeepOut(r) == r.direction = <<"O">>
    IN IF a.display_direction = "in" THEN Filter(df, KeepIn)
       ELSE IF a.display_direction = "out" THEN Filter(df, KeepOut)
       ELSE df

\* if display_direction and not (display_direction == "both"): ...
DirectionFilter(df, a) ==
    LET KeepIn(r) == r.direction = <<"I">> \/ r.type # NSG
        KeepOut(r) == r.direction = <<"O">> \/ r.type # NSG
    IN IF a.display_direction = "in" THEN Filter(df, KeepIn)
       ELSE IF a.display_direction = "out" THEN Filter(df, KeepOut)
       ELSE df

\* if args.port_filter: df_logs[df_logs['dst_port'] == args.port_filter]
PortFilter(df, a) ==
    LET Keep(r) == r.dst_port = a.port_filter
    IN IF Truthy(a.port_filter) THEN Filter(df, Keep) ELSE df

\* IpFilter whose pair match takes ip as the source and ip2 as the
\* destination only
IpFilter_OrderedPair(df, a) ==
    LET ip == a.ip_filter
        ip2 == a.ip2_filter
        one == IF Truthy(ip) THEN ip ELSE ip2
        KeepOne(r) == r.src_ip = one \/ r.dst_ip = one
        KeepPair(r) == r.src_ip = ip /\ r.dst_ip = ip2
        KeepIp(r) == r.src_ip = ip \/ r.dst_ip = ip
        d1 == IF (Truthy(ip) /\ ~Truthy(ip2)) \/ (~Truthy(ip) /\ Truthy(ip2))
              THEN Filter(df, KeepOne) ELSE df
        d2 == IF Truthy(ip) /\ Truthy(ip2) THEN Filter(d1, KeepPair) ELSE d1
    IN IF Truthy(ip) THEN Filter(d2, KeepIp) ELSE d2

\* the three statements that read args.ip_filter and args.ip2_filter
IpFilter(df, a) ==
    LET ip == a.ip_filter
        ip2 == a.ip2_filter
        one == IF Truthy(ip) THEN ip ELSE ip2
        KeepOne(r) == r.src_ip = one \/ r.dst_ip = one
        KeepPair(r) == \/ (r.src_ip = ip /\ r.dst_ip = ip2)
                       \/ (r.src_ip = ip2 /\ r.dst_ip = ip)
        KeepIp(r) == r.src_ip = ip \/ r.dst_ip = ip
        d1 == IF (Truthy(ip) /\ ~Truthy(ip2)) \/ (~Truthy(ip) /\ Truthy(ip2))
              THEN Filter(df, KeepOne) ELSE df
        d2 == IF Truthy(ip) /\ Truthy(ip2) THEN Filter(d1, KeepPair) ELSE d1
    IN IF Truthy(ip) THEN Filter(d2, KeepIp) ELSE d2

\* if args.protocol_filter: df_logs[df_logs['protocol'] == ...]
ProtocolFilter(df, a) ==
    LET Keep(r) == r.protocol = a.protocol_filter
    IN IF Truthy(a.protocol_filter) THEN Filter(df, Keep) ELSE df

\* Series.notnull(): NaN is null, the empty string is not
notnull(v) == v # NaN

\* if args.only_non_zero: the four counters notnull, or not an NSG row
NonZeroFilter(df, a) ==
    LET Keep(r) == \/ /\ notnull(r.bytes_src_to_dst)
                      /\ notnull(r.packets_src_to_dst)
                      /\ notnull(r.bytes_dst_to_src)
                      /\ notnull(r.packets_dst_to_src)
                   \/ r.type # NSG
    IN IF a.only_non_zero THEN Filter(df, Keep) ELSE df

\* if args.no_counters: keep the columns that start with neither 'packets'
\* nor 'bytes'
NoCounters(df, a) ==
    IF a.no_counters
    THEN [rows |-> [i \in 1..Len(df.rows) |->
                      [c \in Columns |->
                         IF c \in CounterCols THEN NaN ELSE df.rows[i][c]]],
          columns |-> df.columns \ CounterCols]
    ELSE df

\* MinutesFilter cutting by position, as display_hours cuts the list of
\* hours: the last display_minutes rows
MinutesFilter_LastRows(df, a) ==
    LET n == Len(df.rows)
        from == IF n > a.display_minutes THEN n - a.display_minutes + 1 ELSE 1
    IN IF a.display_minutes # 0
       THEN [df EXCEPT !.rows = SubSeq(df.rows, from, n)]
       ELSE df

\* if args.display_minutes: df_logs[df_logs['timestamp'] > utcnow - minutes]
MinutesFilter(df, a) ==
    LET timestamp_limit == utcnow - a.display_minutes
        Keep(r) == r.timestamp > timestamp_limit
    IN IF a.display_minutes # 0 THEN Filter(df, Keep) ELSE df

\* the columns a statement indexes when its option is set
Reads(stmt, a) ==
    CASE stmt = "drops" /\ a.display_only_drops -> {"action"}
      [] stmt = "state" /\ Truthy(a.flow_state_filter) -> {"state", "type"}
      [] stmt = "direction" /\ a.display_direction \in {"in", "out"} ->
           {"direction", "type"}
      [] stmt = "port" /\ Truthy(a.port_filter) -> {"dst_port"}
      [] stmt = "ip" /\ (Truthy(a.ip_filter) \/ Truthy(a.ip2_filter)) ->
           {"src_ip", "dst_ip"}
      [] stmt = "protocol" /\ Truthy(a.protocol_filter) -> {"protocol"}
      [] stmt = "nonzero" /\ a.only_non_zero -> CounterCols \cup {"type"}
      [] stmt = "minutes" /\ a.display_minutes # 0 -> {"timestamp"}
      [] OTHER -> {}

\* the statement ends the run with an uncaught KeyError
StatementRaises(stmt, df, a) == Missing(df, Reads(stmt, a))

\* the frame a statement leaves
Apply(stmt, df, a) ==
    CASE stmt = "lb" -> LbFilter(df, a)
      [] stmt = "drops" -> DropsFilter(df, a)
      [] stmt = "state" -> StateFilter(df, a)
      [] stmt = "direction" -> DirectionFilter(df, a)
      [] stmt = "port" -> PortFilter(df, a)
      [] stmt = "ip" -> IpFilter(df, a)
      [] stmt = "protocol" -> ProtocolFilter(df, a)
      [] stmt = "nonzero" -> NonZeroFilter(df, a)
      [] stmt = "nocounters" -> NoCounters(df, a)
      [] stmt = "minutes" -> MinutesFilter(df, a)

----------------------------------------------------------------------------
(* process_fw_logs: the row of one firewall log entry *)

\* A log entry with properties.msg, its message replaced by what the regular
\* expressions find in it: None where an expression finds nothing.  The row
\* carries a key only for what was found; the first character of the action
\* and of the protocol is kept; an ICMP entry gets empty ports; state,
\* counters and direction are padded with ''.
FwLogRow(log) ==
    LET found == {c \in {"action", "src_ip", "src_port", "dst_ip", "dst_port",
                         "protocol"} : log[c] # None}
        icmp == log.protocol # None /\ Head(log.protocol) = "I"
        keys == {"timestamp", "type", "resource", "state", "direction"}
                  \cup CounterCols \cup found
                  \cup (IF icmp THEN {"src_port", "dst_port"} ELSE {})
    IN DataFrame([c \in keys |->
         CASE c = "timestamp" -> log.time
           [] c = "type" -> FW
           [] c = "resource" -> log.resource
           [] c = "action" -> <<Head(log.action)>>
           [] c = "protocol" -> <<Head(log.protocol)>>
           [] c \in {"src_port", "dst_port"} ->
                IF icmp THEN EmptyStr ELSE log[c]
           [] c \in {"src_ip", "dst_ip"} -> log[c]
           [] OTHER -> EmptyStr])

----------------------------------------------------------------------------
(* The frames the filter block is run on: rows the decoders produce *)

\* an NSG inbound deny with counters (V2), an outbound allow that has just
\* begun (V2, empty counters), a V1 outbound deny, a truncated V2 tuple from
\* the load balancer, a V4 tuple, a firewall deny and a firewall entry whose
\* message matched nothing
SampleFrames ==
    { DecodeV2(TupleOfLen(13), 1, <<"n">>, <<"r">>),
      DecodeV2(Join(<< <<"0">>, <<"d">>, <<"s">>, <<"p">>, <<"x">>, <<"U">>,
                       <<"O">>, <<"A">>, <<"B">>, <<>>, <<>>, <<>>, <<>> >>),
               2, <<"n">>, <<"r">>),
      DecodeV1(Join(<< <<"0">>, <<"s">>, <<"d">>, <<"p">>, <<"q">>, <<"T">>,
                       <<"O">>, <<"D">> >>), 2, <<"n">>, <<"r">>),
      DecodeV2(Join(<< <<"0">>, LB_IP, <<"d">>, <<"p">>, <<"q">>, <<"T">>,
                       <<"I">>, <<"D">>, <<"E">> >>), 1, <<"n">>, <<"r">>),
      DecodeV4(Join(<< <<"0">>, <<"s">>, <<"e">>, <<"p">>, <<"q">>, <<"6">>,
                       <<"I">>, <<"B">>, <<"X">>, <<"7">>, <<"8">>, <<"9">>,
                       <<"6">> >>), 2, <<"v">>, <<"r">>),
      FwLogRow([time |-> 1, resource |-> <<"f">>,
                action |-> <<"D", "e", "n", "y">>,
                src_ip |-> <<"d">>, src_port |-> <<"p">>,
                dst_ip |-> <<"s">>, dst_port |-> <<"q">>,
                protocol |-> <<"T", "C", "P">>]),
      FwLogRow([time |-> 2, resource |-> <<"f">>, action |-> None,
                src_ip |-> None, src_port |-> None, dst_ip |-> None,
                dst_port |-> None, protocol |-> None]) }

RECURSIVE ConcatAll(_)
\* pd.concat over the frames of the blobs, in the order they were read
ConcatAll(frames) ==
    IF frames = <<>> THEN EmptyDF
    ELSE concat(frames[1], ConcatAll(Tail(frames)))

\* the NSG container is read before the firewall container
NsgFirst(frames) ==
    \A i, j \in 1..Len(frames) :
        i < j => ~(frames[i].rows[1].type = FW /\ frames[j].rows[1].type = NSG)

\* df_logs when the filter block starts
FilterInputs ==
    { ConcatAll(frames) :
        frames \in { f \in UNION { [1..n -> SampleFrames] : n \in 0..MaxRows } :
                       NsgFirst(f) } }

----------------------------------------------------------------------------
(* The aggregate print: df_logs[cols].sum(axis=0) *)

\* the cells are the strings the tuples held, so the columns have dtype
\* object: the sum of an object column adds its cells with +, which
\* concatenates strings; NaN cells are replaced by the integer 0 first
StrTotal(s) == [kind |-> "str", str |-> s, int |-> 0]
IntTotal(n) == [kind |-> "int", str |-> <<>>, int |-> n]

Column(df, c) == [i \in 1..Len(df.rows) |-> df.rows[i][c]]

RECURSIVE ConcatStr(_)
ConcatStr(cells) ==
    IF cells = <<>> THEN <<>> ELSE Head(cells) \o ConcatStr(Tail(cells))

\* a column holding both NaN and strings: 0 + '7' is a TypeError
Mixed(cells) ==
    /\ \E i \in 1..Len(cells) : cells[i] = NaN
    /\ \E i \in 1..Len(cells) : cells[i] # NaN

ObjectSum(cells) ==
    IF \A i \in 1..Len(cells) : cells[i] = NaN
    THEN IntTotal(0)
    ELSE StrTotal(ConcatStr(cells))

NoTotals == [c \in CounterCols |-> IntTotal(0)]

----------------------------------------------------------------------------
(* The filter block and the output block: the state machine *)

FilterIdle ==
    /\ fpc = "idle"
    /\ g_df_logs = EmptyDF
    /\ prev_df = EmptyDF
    /\ opt = NoFilterArgs
    /\ totals = [status |-> "none", sum |-> NoTotals]

FilterInit ==
    /\ fpc = "start"
    /\ g_df_logs \in FilterInputs
    /\ prev_df = g_df_logs
    /\ opt = NoFilterArgs
    /\ totals = [status |-> "none", sum |-> NoTotals]

\* if len(df_logs)>0:
Start ==
    /\ fpc = "start"
    /\ fpc' = IF Len(g_df_logs.rows) > 0 THEN "sort" ELSE "output"
    /\ UNCHANGED <<g_df_logs, prev_df, opt, totals>>

IsSorted_Descending(rows) ==
    \A i, j \in 1..Len(rows) : i < j => rows[i].timestamp >= rows[j].timestamp

IsSorted(rows) ==
    \A i, j \in 1..Len(rows) : i < j => rows[i].timestamp <= rows[j].timestamp

\* df_logs.sort_values(by='timestamp'): the default sort is not stable, rows
\* with the same timestamp may come out in any order
Sort ==
    /\ fpc = "sort"
    /\ \E p \in Permutations(1..Len(g_df_logs.rows)) :
          LET rows == [i \in 1..Len(g_df_logs.rows) |-> g_df_logs.rows[p[i]]]
          IN /\ IsSorted(rows)
             /\ g_df_logs' = [g_df_logs EXCEPT !.rows = rows]
    /\ fpc' = "lb"
    /\ prev_df' = g_df_logs
    /\ UNCHANGED <<opt, totals>>

\* one statement of the filter block, run with the options a
Statement(stmt, next, a) ==
    /\ fpc = stmt
    /\ prev_df' = g_df_logs
    /\ opt' = a
    /\ IF StatementRaises(stmt, g_df_logs, a)
       THEN fpc' = "raised" /\ UNCHANGED g_df_logs
       ELSE fpc' = next /\ g_df_logs' = Apply(stmt, g_df_logs, a)
    /\ UNCHANGED totals

FilterLb == \E a \in ArgsFor("lb") : Statement("lb", "drops", a)
FilterDrops == \E a \in ArgsFor("drops") : Statement("drops", "state", a)
FilterState == \E a \in ArgsFor("state") : Statement("state", "direction", a)
FilterDirection ==
    \E a \in ArgsFor("direction") : Statement("direction", "port", a)
FilterPort == \E a \in ArgsFor("port") : Statement("port", "ip", a)
FilterIp == \E a \in ArgsFor("ip") : Statement("ip", "protocol", a)
FilterProtocol ==
    \E a \in ArgsFor("protocol") : Statement("protocol", "nonzero", a)
FilterNonZero ==
    \E a \in ArgsFor("nonzero") : Statement("nonzero", "nocounters", a)
DropCounters ==
    \E a \in ArgsFor("nocounters") : Statement("nocounters", "minutes", a)
FilterMinutes ==
    \E a \in ArgsFor("minutes") : Statement("minutes", "output", a)

\* if not args.no_output: if len(df_logs)>0: print(df_logs); if
\* args.aggregate: print(df_logs[cols].sum(axis=0))
Output ==
    /\ fpc = "output"
    /\ \E a \in ArgsFor("output") :
         /\ opt' = a
         /\ IF a.no_output \/ Len(g_df_logs.rows) = 0 \/ ~a.aggregate
            THEN /\ fpc' = "done"
                 /\ totals' = [status |-> "none", sum |-> NoTotals]
            ELSE IF Missing(g_df_logs, CounterCols)
            THEN \* df_logs[cols]: KeyError
                 /\ fpc' = "raised"
                 /\ totals' = [status |-> "KeyError", sum |-> NoTotals]
            ELSE IF \E c \in CounterCols : Mixed(Column(g_df_logs, c))
            THEN \* pandas 2 raises the TypeError; pandas 1 drops the object
                 \* columns from the result and prints an empty sum
                 \E how \in {"TypeError", "omitted"} :
                    /\ fpc' = IF how = "TypeError" THEN "raised" ELSE "done"
                    /\ totals' = [status |-> how, sum |-> NoTotals]
            ELSE /\ fpc' = "done"
                 /\ totals' = [status |-> "printed",
                               sum |-> [c \in CounterCols |->
                                          ObjectSum(Column(g_df_logs, c))]]
    /\ UNCHANGED <<g_df_logs, prev_df>>

FilterNext ==
    \/ Start
    \/ Sort
    \/ FilterLb
    \/ FilterDrops
    \/ FilterState
    \/ FilterDirection
    \/ FilterPort
    \/ FilterIp
    \/ FilterProtocol
    \/ FilterNonZero
    \/ DropCounters
    \/ FilterMinutes
    \/ Output

----------------------------------------------------------------------------
(* The nine filters run in any order *)

NineFilters == {"lb", "drops", "state", "direction", "port", "ip",
                "protocol", "nonzero", "minutes"}

\* the statements of the filter block in the order of the source
ProgramOrder == <<"lb", "drops", "state", "direction", "port", "ip",
                  "protocol", "nonzero", "nocounters", "minutes">>

RECURSIVE RunFrom(_, _, _)
\* the filter block from its i-th statement on: the frame it leaves, or that
\* it raised
RunFrom(i, df, a) ==
    IF i > Len(ProgramOrder) THEN [raised |-> FALSE, df |-> df]
    ELSE IF StatementRaises(ProgramOrder[i], df, a)
         THEN [raised |-> TRUE, df |-> df]
         ELSE RunFrom(i + 1, Apply(ProgramOrder[i], df, a), a)

FilterBlock(df, a) == RunFrom(1, df, a)

\* a frame with every sample row, one with the rows of the first schema
\* only (no state and no counter column) and one with the firewall rows whose
\* message matched nothing (no action, address, port or protocol column)
PermInputs ==
    LET Pick(S) == CHOOSE f \in [1..Cardinality(S) -> S] :
                      \A x \in S : \E i \in DOMAIN f : f[i] = x
        V1Only == {r \in SampleFrames : "state" \notin r.columns}
        FwBare == {r \in SampleFrames : "action" \notin r.columns}
    IN { ConcatAll(Pick(SampleFrames)), ConcatAll(Pick(V1Only)),
         ConcatAll(Pick(FwBare)) }

PermIdle ==
    /\ todo = {}
    /\ cfg = NoFilterArgs
    /\ df0 = EmptyDF

PermInit ==
    /\ todo = NineFilters
    /\ cfg = NoFilterArgs
    /\ df0 \in PermInputs
    /\ fpc = "perm"
    /\ g_df_logs = df0
    /\ prev_df = df0
    /\ opt = NoFilterArgs
    /\ totals = [status |-> "none", sum |-> NoTotals]

\* the options read so far, with those the statement reads now
WithArgs(c, a) ==
    [k \in DOMAIN c |-> IF a[k] # NoFilterArgs[k] THEN a[k] ELSE c[k]]

\* any filter that has not run yet runs next
ApplyAny(stmt) ==
    /\ fpc = "perm"
    /\ stmt \in todo
    /\ \E a \in ArgsFor(stmt) :
         /\ cfg' = WithArgs(cfg, a)
         /\ IF StatementRaises(stmt, g_df_logs, a)
            THEN fpc' = "raised" /\ UNCHANGED g_df_logs
            ELSE fpc' = "perm" /\ g_df_logs' = Apply(stmt, g_df_logs, a)
    /\ todo' = todo \ {stmt}
    /\ UNCHANGED <<df0, prev_df, opt, totals>>

PermNext == \E stmt \in NineFilters : ApplyAny(stmt)

----------------------------------------------------------------------------
(* Blob names: get_resource_list and the lists of process_resources *)

Slash == "/"

RECURSIVE SplitOn(_, _, _, _)
SplitOn(s, sep, cur, acc) ==
    IF s = <<>> THEN Append(acc, cur)
    ELSE IF Head(s) = sep
         THEN SplitOn(Tail(s), sep, <<>>, Append(acc, cur))
         ELSE SplitOn(Tail(s), sep, Append(cur, Head(s)), acc)

\* this_blob.name.split('/')
blob_name_parts(name) == SplitOn(name, Slash, <<>>, <<>>)

RECURSIVE JoinWith(_, _)
\* sep.join(parts)
JoinWith(sep, parts) ==
    IF parts = <<>> THEN <<>>
    ELSE IF Len(parts) = 1 THEN parts[1]
    ELSE parts[1] \o <<sep>> \o JoinWith(sep, Tail(parts))

\* parts[a:b] for 0 <= a <= b: a slice never raises, it is cut at the end
Slice(parts, a, b) ==
    LET hi == IF b < Len(parts) THEN b ELSE Len(parts)
    IN IF a >= hi THEN <<>> ELSE SubSeq(parts, a + 1, hi)

\* blob_name_parts[8]: IndexError when the name has fewer than 9 segments
HasResource(name) == HasItem(blob_name_parts(name), 8)
blob_resource(name) == Item(blob_name_parts(name), 8)

\* "/".join(blob_name_parts[9:14])
blob_time(name) == JoinWith(Slash, Slice(blob_name_parts(name), 9, 14))

\* the characters of the names below, in the order of their code points
Alphabet == <<"/", "0", "1", "2", "3", "9", "A", "B", "a", "b", "c", "f",
              "g", "h", "i", "p", "r", "s", "u">>

Ord(ch) == CHOOSE i \in 1..Len(Alphabet) : Alphabet[i] = ch

RECURSIVE StrLess(_, _)
\* a < b on Python strings
StrLess(a, b) ==
    IF b = <<>> THEN FALSE
    ELSE IF a = <<>> THEN TRUE
    ELSE IF Head(a) = Head(b) THEN StrLess(Tail(a), Tail(b))
    ELSE Ord(Head(a)) < Ord(Head(b))

RECURSIVE SortedReverse_Ascending(_)
SortedReverse_Ascending(S) ==
    IF S = {} THEN <<>>
    ELSE LET low == CHOOSE x \in S : \A y \in S \ {x} : StrLess(x, y)
         IN <<low>> \o SortedReverse_Ascending(S \ {low})

RECURSIVE SortedReverse(_)
\* sorted(S, reverse=True) of a set of distinct strings
SortedReverse(S) ==
    IF S = {} THEN <<>>
    ELSE LET top == CHOOSE x \in S : \A y \in S \ {x} : StrLess(y, x)
         IN <<top>> \o SortedReverse(S \ {top})

\* str.lower() on the characters of the names below
lower(s) ==
    [i \in 1..Len(s) |-> CASE s[i] = "A" -> "a"
                           [] s[i] = "B" -> "b"
                           [] OTHER -> s[i]]

\* full_date_list[:display_hours]: a negative count cuts from the end
Truncate(list, n) ==
    IF n >= 0 THEN Slice(list, 0, n)
    ELSE IF Len(list) + n <= 0 THEN <<>>
    ELSE SubSeq(list, 1, Len(list) + n)

\* get_resource_list(blob_list): the segments at index 8 of the names that
\* have one
get_resource_list(blobs) ==
    { blob_resource(blobs[i]) :
        i \in {j \in 1..Len(blobs) : HasResource(blobs[j])} }

\* date_list of one resource, duplicates removed
date_list(blobs, res) ==
    { blob_time(blobs[i]) :
        i \in {j \in 1..Len(blobs) :
                 HasResource(blobs[j]) /\ blob_resource(blobs[j]) = res} }

\* filtered_date_list of one resource
filtered_date_list(blobs, res, hours) ==
    Truncate(SortedReverse(date_list(blobs, res)), hours)

\* blob_matches of one resource and one date, in the order of the listing
blob_matches(blobs, res, thisDate) ==
    LET Match(name) == /\ HasResource(name)
                       /\ blob_resource(name) = res
                       /\ blob_time(name) = thisDate
    IN SelectSeq(blobs, Match)

\* the resource filter of process_resources
ResourceSelected(res, resource_name_filter) ==
    \/ ~Truthy(resource_name_filter)
    \/ lower(res) = lower(resource_name_filter)

----------------------------------------------------------------------------
(* The blobs a container lists *)

\* resourceId=/SUBSCRIPTIONS/<id>/RESOURCEGROUPS/<rg>/PROVIDERS/
\* MICROSOFT.NETWORK/NETWORKSECURITYGROUPS/, one character per segment
NamePrefix == << <<"r">>, <<"s">>, <<"u">>, <<"r">>, <<"g">>, <<"p">>,
                 <<"i">>, <<"c">> >>

\* <prefix>/<resource>/y=/m=/d=/h=/m=/macAddress=/<file>: 16 segments
HourBlob(res, h, file) ==
    JoinWith(Slash, NamePrefix \o << res, <<"2">>, <<"0">>, <<"1">>, h,
                                     <<"0">>, <<"c">>, file >>)

\* names in the order the container lists them: one of 5 segments, one that
\* ends with the resource (9 segments), one that ends inside the time
\* hierarchy (11 segments), and hourly blobs of the resources a and b
AllBlobNames ==
    << JoinWith(Slash, SubSeq(NamePrefix, 1, 5)),
       JoinWith(Slash, NamePrefix \o << <<"a">> >>),
       JoinWith(Slash, NamePrefix \o << <<"a">>, <<"9">>, <<"0">> >>),
       HourBlob(<<"a">>, <<"1">>, <<"f">>),
       HourBlob(<<"a">>, <<"1">>, <<"h">>),
       HourBlob(<<"a">>, <<"2">>, <<"f">>),
       HourBlob(<<"a">>, <<"3">>, <<"f">>),
       HourBlob(<<"b">>, <<"1">>, <<"f">>) >>

\* blobs of one container
MaxBlobs == 2

\* list(container_client.list_blobs()): any MaxBlobs of the names, in order
BlobLists ==
    { LET Listed(name) == \E i \in picked : AllBlobNames[i] = name
      IN SelectSeq(AllBlobNames, Listed) :
        picked \in {p \in SUBSET (1..Len(AllBlobNames)) :
                      Cardinality(p) <= MaxBlobs} }

\* get_blob_list returned None
ListFailed == <<None>>

\* what reading one blob can come to: a document that is handed to one of
\* the two decoders, download_blob() raising, json.loads raising on the whole
\* text, json.loads raising on one line of a newline-delimited text
BlobOutcomes == {"decoded", "fetch_fails", "bad_json", "bad_line"}

\* the command line: --display-direction, --mode, --display-hours and
\* --resource-name
RunArgs ==
    [display_direction : {"in", "out", "both", "up"},
     mode : {"nsg", "fw", "both", "all"},
     display_hours : {-1, 0, 1, 2},
     resource_name_filter : {None, <<"A">>}]

----------------------------------------------------------------------------
(* The run: argument validation, the start block and process_resources *)

RunIdle ==
    /\ rpc = "idle"
    /\ args = CHOOSE a \in RunArgs : TRUE
    /\ container = "nsg"
    /\ blob_list = <<>>
    /\ resource_list = {}
    /\ resource = None
    /\ dates = <<>>
    /\ matches = <<>>
    /\ fetched = <<>>
    /\ steps = {}

RunInit ==
    /\ rpc = "direction"
    /\ args \in RunArgs
    /\ container = "nsg"
    /\ blob_list = <<>>
    /\ resource_list = {}
    /\ resource = None
    /\ dates = <<>>
    /\ matches = <<>>
    /\ fetched = <<>>
    /\ steps = {}

\* if not display_direction in set(['in', 'out', 'both']): exit(1)
ValidateDirection ==
    /\ rpc = "direction"
    /\ rpc' = IF args.display_direction \in {"in", "out", "both"}
              THEN "mode" ELSE "rejected"
    /\ UNCHANGED <<args, container, blob_list, resource_list, resource,
                   dates, matches, fetched, steps>>

ValidateMode_Skipped ==
    /\ rpc = "mode"
    /\ rpc' = "key"
    /\ UNCHANGED <<args, container, blob_list, resource_list, resource,
                   dates, matches, fetched, steps>>

\* if not args.mode in set(["nsg", "fw", "both"]): exit(1)
ValidateMode ==
    /\ rpc = "mode"
    /\ rpc' = IF args.mode \in {"nsg", "fw", "both"} THEN "key" ELSE "rejected"
    /\ UNCHANGED <<args, container, blob_list, resource_list, resource,
                   dates, matches, fetched, steps>>

\* account_key = os.environ.get('STORAGE_ACCOUNT_KEY'); exit(1) when None
GetAccountKey ==
    /\ rpc = "key"
    /\ \E account_key \in {None, <<"s">>} :
          rpc' = IF account_key = None THEN "no_key" ELSE "connect"
    /\ UNCHANGED <<args, container, blob_list, resource_list, resource,
                   dates, matches, fetched, steps>>

\* get_blob_client: when BlobServiceClient raises, the handler prints the
\* undefined name storage_account, a NameError
get_blob_client ==
    /\ rpc = "connect"
    /\ \E created \in BOOLEAN :
          rpc' = IF created THEN "container" ELSE "raised"
    /\ steps' = steps \cup {"connect"}
    /\ UNCHANGED <<args, container, blob_list, resource_list, resource,
                   dates, matches, fetched>>

\* the container after this one, or the filter block
AfterContainer(c) ==
    IF c = "nsg"
    THEN rpc' = "container" /\ container' = "fw"
    ELSE rpc' = "filter" /\ container' = c

\* if (args.mode == <container>) or (args.mode == 'both'): the container
\* client, the blob list and, when the list is neither None nor empty, the
\* resource list
OpenContainer ==
    /\ rpc = "container"
    /\ IF args.mode \in {container, "both"}
       THEN /\ steps' = steps \cup {"list"}
            /\ \E listed \in BlobLists \cup {ListFailed} :
                  IF listed \in {ListFailed, <<>>}
                  THEN /\ AfterContainer(container)
                       /\ UNCHANGED <<blob_list, resource_list>>
                  ELSE /\ blob_list' = listed
                       /\ resource_list' = get_resource_list(listed)
                       /\ rpc' = "resource"
                       /\ UNCHANGED container
       ELSE /\ AfterContainer(container)
            /\ UNCHANGED <<blob_list, resource_list, steps>>
    /\ resource' = None
    /\ dates' = <<>>
    /\ matches' = <<>>
    /\ fetched' = <<>>
    /\ UNCHANGED args

\* for resource in resource_list: a set is iterated in no particular order
NextResource ==
    /\ rpc = "resource"
    /\ IF resource_list = {}
       THEN /\ AfterContainer(container)
            /\ UNCHANGED <<resource_list, resource, dates>>
       ELSE /\ \E res \in resource_list :
                  /\ resource_list' = resource_list \ {res}
                  /\ IF ResourceSelected(res, args.resource_name_filter)
                     THEN /\ resource' = res
                          /\ dates' = filtered_date_list(blob_list, res,
                                                         args.display_hours)
                          /\ rpc' = "date"
                     ELSE /\ rpc' = "resource"
                          /\ UNCHANGED <<resource, dates>>
            /\ UNCHANGED container
    /\ UNCHANGED <<args, blob_list, matches, fetched, steps>>

\* for thisDate in filtered_date_list: blob_matches of the date
NextDate ==
    /\ rpc = "date"
    /\ IF dates = <<>>
       THEN /\ rpc' = "resource"
            /\ UNCHANGED <<dates, matches>>
       ELSE /\ matches' = blob_matches(blob_list, resource, Head(dates))
            /\ dates' = Tail(dates)
            /\ rpc' = "blob"
    /\ UNCHANGED <<args, container, blob_list, resource_list, resource,
                   fetched, steps>>

\* for blob_name in blob_matches: download, json.loads, decode and concat.
\* download_blob() is not inside a try; both except branches of the JSON
\* parsing end with exit(1)
ReadBlob ==
    /\ rpc = "blob"
    /\ IF matches = <<>>
       THEN /\ rpc' = "date"
            /\ UNCHANGED <<matches, fetched, steps>>
       ELSE \E outcome \in BlobOutcomes :
              /\ fetched' = Append(fetched,
                                   [name |-> Head(matches),
                                    resource |-> resource,
                                    outcome |-> outcome])
              /\ matches' = Tail(matches)
              /\ steps' = steps \cup {"fetch"} \cup
                            (IF outcome = "decoded" THEN {"decode"} ELSE {})
              /\ rpc' = CASE outcome = "fetch_fails" -> "raised"
                          [] outcome \in {"bad_json", "bad_line"} -> "exited"
                          [] OTHER -> "blob"
    /\ UNCHANGED <<args, container, blob_list, resource_list, resource, dates>>

\* the filter block and the output block are reached
EnterFilter ==
    /\ rpc = "filter"
    /\ rpc' = "done"
    /\ steps' = steps \cup {"filter"}
    /\ UNCHANGED <<args, container, blob_list, resource_list, resource,
                   dates, matches, fetched>>

RunNext ==
    \/ ValidateDirection
    \/ ValidateMode
    \/ GetAccountKey
    \/ get_blob_client
    \/ OpenContainer
    \/ NextResource
    \/ NextDate
    \/ ReadBlob
    \/ EnterFilter

----------------------------------------------------------------------------
(* process_fw_logs: the state machine *)

\* log entries of one document
MaxLogs == 3

\* a resourceId of 9 segments, whose segment at index 8 is the firewall f
FwResourceId == JoinWith(Slash, NamePrefix \o << <<"f">> >>)

\* An entry as the function reads it: whether it has 'properties' and
\* properties.msg, its resourceId (None: no such key), its time, and what
\* re.findall returns on the message: the first match of the action
\* expression (\w* also matches the empty word), the address and the port
\* of the from and to blocks, how many ports the from block holds, and the
\* first match of the protocol expression
FwEntry(properties, msg, resourceId, action, protocol, ports) ==
    [properties |-> properties, msg |-> msg, resourceId |-> resourceId,
     time |-> 1, action |-> action,
     src_ip |-> IF action = None THEN None ELSE <<"d">>,
     src_port |-> IF ports = 0 THEN None ELSE <<"p">>,
     src_port_matches |-> ports,
     dst_ip |-> IF action = None THEN None ELSE <<"s">>,
     dst_port |-> IF ports = 0 THEN None ELSE <<"q">>,
     protocol |-> protocol]

\* 'TCP request from d:p to s:q. Action: Deny', an ICMP request, a message
\* no expression matches, an entry without properties, one without
\* properties.msg, 'Action:  Deny' (two spaces: the action matched is ''),
\* an entry without resourceId, one whose resourceId is too short, and a
\* from block with two ports ('from 2001:db8::1:443')
FwEntries ==
    { FwEntry(TRUE, TRUE, FwResourceId, <<"D", "e", "n", "y">>,
              <<"T", "C", "P">>, 1),
      FwEntry(TRUE, TRUE, FwResourceId, <<"A", "l", "l", "o", "w">>,
              <<"I", "C", "M", "P">>, 0),
      FwEntry(TRUE, TRUE, FwResourceId, None, None, 0),
      FwEntry(FALSE, FALSE, FwResourceId, None, None, 0),
      FwEntry(TRUE, FALSE, FwResourceId, None, None, 0),
      FwEntry(TRUE, TRUE, FwResourceId, EmptyStr, <<"T", "C", "P">>, 1),
      FwEntry(TRUE, TRUE, None, <<"D", "e", "n", "y">>, <<"T", "C", "P">>, 1),
      FwEntry(TRUE, TRUE, JoinWith(Slash, SubSeq(NamePrefix, 1, 5)),
              <<"D", "e", "n", "y">>, <<"T", "C", "P">>, 1),
      FwEntry(TRUE, TRUE, FwResourceId, <<"D", "e", "n", "y">>,
              <<"T", "C", "P">>, 2) }

NoLog == FwEntry(FALSE, FALSE, None, None, None, 0)

\* ('properties' in log) and ('msg' in log['properties'])
HasMsg(log) == log.properties /\ log.msg

\* the exception building the row raises, "none" when it does not:
\* log['resourceId'] without the key, split('/')[8] on a short resourceId,
\* action[0][0] or protocol[0][0] on an empty match, and pd.DataFrame on a
\* dictionary whose src_port list has two elements
FwRowRaises(log) ==
    CASE log.resourceId = None -> "KeyError"
      [] ~HasItem(blob_name_parts(log.resourceId), 8) -> "IndexError"
      [] log.action = EmptyStr -> "IndexError"
      [] log.protocol = EmptyStr -> "IndexError"
      [] log.src_port_matches > 1 -> "ValueError"
      [] OTHER -> "none"

\* the row of an entry that raises nothing
FwRow(log) ==
    FwLogRow(log @@ [resource |-> Item(blob_name_parts(log.resourceId), 8)])

FwInit ==
    /\ fw_pc = "loop"
    /\ fw_df = EmptyDF
    /\ log_counter = 0
    /\ fw_errors = 0
    /\ fw_exc = "none"
    /\ fw_last = [op |-> "init", log |-> NoLog, rows_before |-> 0,
                  errors_before |-> 0]

\* one iteration of for log in data
DecodeLog(log) ==
    /\ fw_pc = "loop"
    /\ log_counter < MaxLogs
    /\ log_counter' = log_counter + 1
    /\ fw_last' = [op |-> "log", log |-> log,
                   rows_before |-> Len(fw_df.rows),
                   errors_before |-> fw_errors]
    /\ IF HasMsg(log)
       THEN IF FwRowRaises(log) # "none"
            THEN /\ fw_pc' = "raised"
                 /\ fw_exc' = FwRowRaises(log)
                 /\ UNCHANGED <<fw_df, fw_errors>>
            ELSE /\ fw_df' = concat(fw_df, FwRow(log))
                 /\ UNCHANGED <<fw_pc, fw_errors, fw_exc>>
       ELSE /\ fw_errors' = fw_errors + 1
            /\ UNCHANGED <<fw_pc, fw_df, fw_exc>>

\* return df_logs
FwReturn ==
    /\ fw_pc = "loop"
    /\ fw_pc' = "returned"
    /\ fw_last' = [fw_last EXCEPT !.op = "return"]
    /\ UNCHANGED <<fw_df, log_counter, fw_errors, fw_exc>>

FwNext ==
    \/ \E log \in FwEntries : DecodeLog(log)
    \/ FwReturn

----------------------------------------------------------------------------
(* Specifications *)

\* process_flowlog_records on one document
Init == DecoderInit /\ FilterIdle /\ PermIdle /\ RunIdle /\ FwInit

Next ==
    /\ \/ \E rec \in Records : BeginRecord(rec)
       \/ DecodeTuple
       \/ EndRecord
       \/ Return
    /\ UNCHANGED filter_vars
    /\ UNCHANGED perm_vars
    /\ UNCHANGED run_vars
    /\ UNCHANGED fw_vars

Spec == Init /\ [][Next]_vars

\* the filter block and the output block, in the order of the source
InitFilter == DecoderInit /\ FilterInit /\ PermIdle /\ RunIdle /\ FwInit

NextFilter ==
    /\ FilterNext
    /\ UNCHANGED decoder_vars
    /\ UNCHANGED perm_vars
    /\ UNCHANGED run_vars
    /\ UNCHANGED fw_vars

FilterSpec == InitFilter /\ [][NextFilter]_vars

\* the nine filters in any order
InitPerm == DecoderInit /\ PermInit /\ RunIdle /\ FwInit

NextPerm ==
    /\ PermNext
    /\ UNCHANGED decoder_vars
    /\ UNCHANGED run_vars
    /\ UNCHANGED fw_vars

PermSpec == InitPerm /\ [][NextPerm]_vars

\* the run from argument validation to the filter block
InitRun == DecoderInit /\ FilterIdle /\ PermIdle /\ RunInit /\ FwInit

NextRun ==
    /\ RunNext
    /\ UNCHANGED decoder_vars
    /\ UNCHANGED filter_vars
    /\ UNCHANGED perm_vars
    /\ UNCHANGED fw_vars

RunSpec == InitRun /\ [][NextRun]_vars

\* process_fw_logs on one document
NextFw ==
    /\ FwNext
    /\ UNCHANGED decoder_vars
    /\ UNCHANGED filter_vars
    /\ UNCHANGED perm_vars
    /\ UNCHANGED run_vars

FwSpec == Init /\ [][NextFw]_vars

----------------------------------------------------------------------------
(* Claims about process_flowlog_records (specification Spec) *)

\* what the spec calls an absent value: the '' of the except branches, or a
\* cell the row has no key for
IsAbsent(v) == v \in {EmptyStr, NaN}

\* the cell v is the field at index i of the comma-split tuple, or absent
\* when the tuple has no such field
FieldIs(v, tuple_values, i) ==
    IF i < Len(tuple_values) THEN v = tuple_values[i + 1] ELSE IsAbsent(v)

LastRow == df_logs.rows[Len(df_logs.rows)]

\* the latest step decoded a tuple of at least 8 fields of a V1 or V2 record
C1_Case ==
    /\ last.op = "tuple"
    /\ record.properties
    /\ record.Version \in {1, 2}
    /\ Len(split(last.flowtuple)) >= 8

\* C1: a tuple of at least 8 comma-separated fields of a V1 or V2 record
\* emits exactly one record, whose src_ip, dst_ip, src_port, dst_port,
\* protocol, direction and action are the fields at indices 1 to 7; for V2
\* the state is the field at index 8 and the counters those at 9 to 12,
\* each absent when the tuple has no field at that index.
C1_FieldsAtIndices ==
    C1_Case =>
       LET tv == split(last.flowtuple)
       IN /\ exc = "none"
          /\ Len(df_logs.rows) = last.rows_before + 1
          /\ LastRow.type = NSG
          /\ LastRow.src_ip = tv[2]
          /\ LastRow.dst_ip = tv[3]
          /\ LastRow.src_port = tv[4]
          /\ LastRow.dst_port = tv[5]
          /\ LastRow.protocol = tv[6]
          /\ LastRow.direction = tv[7]
          /\ LastRow.action = tv[8]
          /\ record.Version = 2 =>
                /\ FieldIs(LastRow.state, tv, 8)
                /\ FieldIs(LastRow.packets_src_to_dst, tv, 9)
                /\ FieldIs(LastRow.bytes_src_to_dst, tv, 10)
                /\ FieldIs(LastRow.packets_dst_to_src, tv, 11)
                /\ FieldIs(LastRow.bytes_dst_to_src, tv, 12)

\* a V2 tuple of ten fields was decoded: the state and one counter are there,
\* three counters are not
C1_Witness ==
    /\ C1_Case
    /\ record.Version = 2
    /\ Len(split(last.flowtuple)) = 10
    /\ LastRow.packets_src_to_dst = <<"1">>
    /\ LastRow.bytes_dst_to_src = EmptyStr

\* C2: decoding never raises for a malformed tuple: a tuple of fewer than 8
\* fields yields a partial record or is skipped, and the tuples after it are
\* still decoded.
C2_MalformedTupleTolerated ==
    (last.op = "tuple" /\ Len(split(last.flowtuple)) < 8) =>
       /\ exc = "none"
       /\ pc = "tuples"
       /\ Len(df_logs.rows) \in {last.rows_before, last.rows_before + 1}

\* the latest step decoded a tuple of the flowRecords of a record with
\* flowLogVersion 4, and emitted a record
C3_Case ==
    /\ last.op = "tuple"
    /\ record.flowRecords
    /\ record.flowLogVersion = 4
    /\ exc = "none"

\* C3: the record emitted for a flow tuple of a record with flowLogVersion 4
\* has action A whatever the tuple holds, its state is the tuple's field at
\* index 7 and its counters are the fields at indices 9 to 12, absent when
\* the tuple is too short to have them.
C3_V4Record ==
    C3_Case =>
       LET tv == split(last.flowtuple)
       IN /\ Len(df_logs.rows) = last.rows_before + 1
          /\ LastRow.action = <<"A">>
          /\ LastRow.state = tv[8]
          /\ FieldIs(LastRow.packets_src_to_dst, tv, 9)
          /\ FieldIs(LastRow.bytes_src_to_dst, tv, 10)
          /\ FieldIs(LastRow.packets_dst_to_src, tv, 11)
          /\ FieldIs(LastRow.bytes_dst_to_src, tv, 12)

\* a V4 tuple whose field at index 7 is D and that stops after index 9
C3_Witness ==
    /\ C3_Case
    /\ Len(split(last.flowtuple)) = 10
    /\ split(last.flowtuple)[8] = <<"D">>
    /\ LastRow.state = <<"D">>
    /\ LastRow.bytes_src_to_dst = EmptyStr

\* the latest step read a record that has no properties block and whose
\* flowLogVersion is 3
C4_Case ==
    /\ last.op = "record"
    /\ ~record.properties
    /\ record.flowLogVersion = 3

NoIndicator(rec) ==
    /\ ~(rec.properties /\ rec.Version \in {1, 2})
    /\ rec.flowLogVersion \notin {3, 4}

\* C5: a record none of whose version indicators matches, wherever it stands
\* in the document, emits no flow record, a warning is printed for it and
\* the records after it are still decoded.
C5_UnknownVersionSkipped ==
    (last.op = "record" /\ NoIndicator(record)) =>
       /\ exc = "none"
       /\ pc = "loop"
       /\ errors = last.errors_before + 1
       /\ Len(df_logs.rows) = last.rows_before

----------------------------------------------------------------------------
(* Claims about the filter block *)

\* C6: whatever the options and the decoded records, the nine filters run in
\* any order leave what the filter block leaves in the order of the source:
\* at every point of a run in any order, the frame is the one the filter
\* block makes of the same input with the options read so far (a filter
\* whose option is not set does nothing), and a run in any order raises only
\* where the filter block raises too.  (specification PermSpec)
C6_AnyOrderSameResult ==
    /\ fpc = "perm" =>
          /\ ~FilterBlock(df0, cfg).raised
          /\ FilterBlock(df0, cfg).df = g_df_logs
    /\ fpc = "raised" => FilterBlock(df0, cfg).raised

\* the recency, port and protocol filters have run, the load-balancer and
\* action filters, first in the source, have not; rows are gone and rows are
\* left
C6_Witness ==
    /\ fpc = "perm"
    /\ todo = {"lb", "drops"}
    /\ cfg.display_minutes = 2
    /\ Truthy(cfg.port_filter)
    /\ Truthy(cfg.protocol_filter)
    /\ Len(g_df_logs.rows) > 0
    /\ Len(g_df_logs.rows) < Len(df0.rows)

\* the direction statement has just run
C7_Case == fpc = "port"

\* the rows the claim lets through for a requested direction
C7_Keeps(r, direction) ==
    IF r.type = NSG
    THEN CASE direction = "in" -> r.direction = <<"I">>
           [] direction = "out" -> r.direction = <<"O">>
           [] OTHER -> TRUE
    ELSE TRUE

\* C7: with direction in (out) the direction filter keeps exactly the NSG
\* rows whose direction is I (O) and every row that is not an NSG row; with
\* direction both it removes nothing.  (specification FilterSpec)
C7_DirectionFilter ==
    C7_Case =>
       /\ \A i \in 1..Len(g_df_logs.rows) :
             C7_Keeps(g_df_logs.rows[i], opt.display_direction)
       /\ LET Kept(r) == C7_Keeps(r, opt.display_direction)
          IN g_df_logs.rows = SelectSeq(prev_df.rows, Kept)
       /\ opt.display_direction = "both" => g_df_logs = prev_df

\* direction in: an outbound NSG row was dropped and a firewall row (whose
\* direction is '') was kept
C7_Witness ==
    /\ C7_Case
    /\ opt.display_direction = "in"
    /\ \E i \in 1..Len(prev_df.rows) :
          prev_df.rows[i].type = NSG /\ prev_df.rows[i].direction = <<"O">>
    /\ \E i \in 1..Len(g_df_logs.rows) : g_df_logs.rows[i].type = FW
    /\ Len(g_df_logs.rows) < Len(prev_df.rows)

\* the IP statements have just run
C8_Case == fpc = "protocol"

\* the rows the claim lets through for the requested addresses
C8_Passes(r, ip, ip2) ==
    IF Truthy(ip) /\ Truthy(ip2)
    THEN <<r.src_ip, r.dst_ip>> \in {<<ip, ip2>>, <<ip2, ip>>}
    ELSE IF Truthy(ip) THEN ip \in {r.src_ip, r.dst_ip}
    ELSE IF Truthy(ip2) THEN ip2 \in {r.src_ip, r.dst_ip}
    ELSE TRUE

\* C8: with both addresses requested a row passes iff its source and
\* destination are the two addresses in either order; with one address
\* requested, in either option, iff the address is its source or its
\* destination; with none requested every row passes.  (FilterSpec)
C8_IpFilter ==
    C8_Case =>
       LET Passes(r) == C8_Passes(r, opt.ip_filter, opt.ip2_filter)
       IN g_df_logs.rows = SelectSeq(prev_df.rows, Passes)

\* both addresses requested: a row from ip2 to ip was kept and another row
\* was dropped
C8_Witness ==
    /\ C8_Case
    /\ Truthy(opt.ip_filter)
    /\ Truthy(opt.ip2_filter)
    /\ \E i \in 1..Len(g_df_logs.rows) :
          /\ g_df_logs.rows[i].src_ip = opt.ip2_filter
          /\ g_df_logs.rows[i].dst_ip = opt.ip_filter
    /\ Len(g_df_logs.rows) < Len(prev_df.rows)

\* a counter that is there: neither a missing cell nor ''
Present(v) == ~IsAbsent(v)

AllCountersPresent(r) == \A c \in CounterCols : Present(r[c])

\* C9: with the non-zero-only option every NSG row of the output has its four
\* counters, an NSG row with an absent counter (a V1 row, or a V2 or V4 row
\* of a tuple too short to carry it) is dropped, and every row that is not
\* NSG passes.  (specification FilterSpec)
C9_NonZeroOnly ==
    (fpc = "nocounters" /\ opt.only_non_zero) =>
       LET Kept(r) == r.type # NSG \/ AllCountersPresent(r)
       IN g_df_logs.rows = SelectSeq(prev_df.rows, Kept)

RECURSIVE ToInt(_)
\* the number a string of digits spells
ToInt(s) ==
    IF s = <<>> THEN 0
    ELSE 10 * ToInt(SubSeq(s, 1, Len(s) - 1))
         + (CASE s[Len(s)] = "0" -> 0 [] s[Len(s)] = "1" -> 1
              [] s[Len(s)] = "2" -> 2 [] s[Len(s)] = "3" -> 3
              [] s[Len(s)] = "4" -> 4 [] s[Len(s)] = "5" -> 5
              [] s[Len(s)] = "6" -> 6 [] s[Len(s)] = "7" -> 7
              [] s[Len(s)] = "8" -> 8 [] s[Len(s)] = "9" -> 9)

RECURSIVE ArithmeticSum(_)
\* the sum of the counters that are there, an absent one counting zero
ArithmeticSum(cells) ==
    IF cells = <<>> THEN 0
    ELSE (IF Present(Head(cells)) THEN ToInt(Head(cells)) ELSE 0)
         + ArithmeticSum(Tail(cells))

\* a printed total shows the number n
Shows(total, n) ==
    \/ total.kind = "int" /\ total.int = n
    \/ total.kind = "str" /\ total.str # <<>> /\ ToInt(total.str) = n

\* aggregation was requested and the totals were printed for a frame in which
\* every row has its four counters
C10_Case ==
    /\ fpc = "done"
    /\ opt.aggregate
    /\ totals.status = "printed"
    /\ \A i \in 1..Len(g_df_logs.rows) : AllCountersPresent(g_df_logs.rows[i])

\* C10: when aggregation is requested each of the four totals is the
\* arithmetic sum of that counter over the rows of the filtered frame that
\* have it; stated here for the frames in which no counter is absent.
\* (specification FilterSpec)
C10_TotalsAreSums ==
    C10_Case =>
       \A c \in CounterCols :
          Shows(totals.sum[c], ArithmeticSum(Column(g_df_logs, c)))

----------------------------------------------------------------------------
(* Claims about the run (specification RunSpec) *)

\* a name with a resource segment and all five time segments
FullName(name) == Len(blob_name_parts(name)) >= 14

\* C11: a blob name with fewer than 14 segments contributes no fetched
\* blob, no time bucket and no resource: every blob read has a full name,
\* every date still to visit is the time of a full name, and the resource
\* being processed is the resource of a full name.
C11_ShortNameContributesNothing ==
    /\ \A i \in 1..Len(fetched) : FullName(fetched[i].name)
    /\ \A i \in 1..Len(dates) :
          \E j \in 1..Len(blob_list) :
             FullName(blob_list[j]) /\ blob_time(blob_list[j]) = dates[i]
    /\ resource # None =>
          \E j \in 1..Len(blob_list) :
             FullName(blob_list[j]) /\ blob_resource(blob_list[j]) = resource

\* the distinct bucket strings of a resource
Buckets(res) ==
    { blob_time(blob_list[j]) :
        j \in {k \in 1..Len(blob_list) :
                 HasResource(blob_list[k]) /\ blob_resource(blob_list[k]) = res} }

\* the reads of a resource, in the order they happened
ReadsOf(res) == LET Of(f) == f.resource = res IN SelectSeq(fetched, Of)

\* the loop over the dates of the current resource has finished
C12_Case ==
    /\ rpc = "resource"
    /\ resource # None
    /\ args.display_hours >= 0

\* C12: for a lookback count N >= 0, no blob is ever read from a bucket that
\* has N or more later buckets of its resource; blobs are read latest bucket
\* first; and when a resource is done exactly min(N, number of buckets)
\* buckets were read, every blob of each of them once.
C12_LookbackBuckets ==
    /\ args.display_hours >= 0 =>
          /\ \A i \in 1..Len(fetched) :
                Cardinality({d \in Buckets(fetched[i].resource) :
                               StrLess(blob_time(fetched[i].name), d)})
                   < args.display_hours
          /\ \A i, j \in 1..Len(fetched) :
                (i < j /\ fetched[i].resource = fetched[j].resource) =>
                   ~StrLess(blob_time(fetched[i].name),
                            blob_time(fetched[j].name))
    /\ C12_Case =>
          LET r == ReadsOf(resource)
              read == {blob_time(r[i].name) : i \in 1..Len(r)}
              all == Buckets(resource)
              N == args.display_hours
          IN /\ read \subseteq all
             /\ Cardinality(read) =
                   IF Cardinality(all) < N THEN Cardinality(all) ELSE N
             /\ \A j \in 1..Len(blob_list) :
                   ( /\ HasResource(blob_list[j])
                     /\ blob_resource(blob_list[j]) = resource
                     /\ blob_time(blob_list[j]) \in read )
                   => Cardinality({i \in 1..Len(r) :
                                     r[i].name = blob_list[j]}) = 1

\* a resource with two buckets and a lookback of one: only the later bucket
\* was read
C12_Witness ==
    /\ C12_Case
    /\ args.display_hours = 1
    /\ Cardinality(Buckets(resource)) >= 2
    /\ Len(ReadsOf(resource)) >= 1

\* C13: a blob whose download fails or whose payload is not valid JSON does
\* not end the run: the run is never in an aborted state right after such a
\* blob.
C13_BlobFailureTolerated ==
    (fetched # <<>> /\ fetched[Len(fetched)].outcome
                          \in {"fetch_fails", "bad_json", "bad_line"})
       => rpc \notin {"raised", "exited"}

ValidArgs ==
    /\ args.display_direction \in {"in", "out", "both"}
    /\ args.mode \in {"nsg", "fw", "both"}

\* C14: with a direction outside in, out, both or a mode outside nsg, fw,
\* both the run never gets past validation and takes no connection, listing,
\* fetch, decode or filter step; it is rejected only for such values, and
\* no step has been taken when it is.
C14_ConfigRejected ==
    /\ ~ValidArgs => (rpc \in {"direction", "mode", "rejected"} /\ steps = {})
    /\ rpc \notin {"direction", "rejected"} =>
          args.display_direction \in {"in", "out", "both"}
    /\ rpc = "rejected" => (~ValidArgs /\ steps = {})
    /\ ValidArgs => rpc # "rejected"

\* a run with a valid direction was rejected for its mode
C14_Witness ==
    /\ rpc = "rejected"
    /\ args.display_direction = "both"
    /\ args.mode = "all"


----------------------------------------------------------------------------
(* Claims about process_fw_logs (specification FwSpec) *)

\* the latest step read a log entry
C15_Case == fw_last.op = "log"

\* C15: a log entry that carries properties.msg appends exactly one row,
\* after the rows of the entries before it, with the entry's time and
\* resource, whatever the expressions find in the message; an entry without
\* properties.msg appends no row and prints one warning; in both cases no
\* exception is raised and the loop goes on.
C15_OneRowPerMessage ==
    C15_Case =>
       /\ fw_exc = "none"
       /\ fw_pc = "loop"
       /\ IF fw_last.log.properties /\ fw_last.log.msg
          THEN /\ Len(fw_df.rows) = fw_last.rows_before + 1
               /\ fw_df.rows[Len(fw_df.rows)].type = FW
               /\ fw_df.rows[Len(fw_df.rows)].timestamp = fw_last.log.time
               /\ fw_errors = fw_last.errors_before
          ELSE /\ Len(fw_df.rows) = fw_last.rows_before
               /\ fw_errors = fw_last.errors_before + 1


----------------------------------------------------------------------------
(* Claims about the order of the output (specification FilterSpec) *)

\* the sort has run
AfterSort == fpc \in {"lb", "drops", "state", "direction", "port", "ip",
                      "protocol", "nonzero", "nocounters", "minutes",
                      "output", "done"}

NonDecreasing(rows) ==
    \A i \in 1..Len(rows) - 1 : rows[i].timestamp <= rows[i + 1].timestamp

\* a row without its counters, which --no-counters removes
WithoutCounters(r) == [c \in Columns \ CounterCols |-> r[c]]

\* the rows after are rows of before, in the order they had there
InOrderOf(after, before) ==
    \E f \in [1..Len(after) -> 1..Len(before)] :
       /\ \A i, j \in 1..Len(after) : i < j => f[i] < f[j]
       /\ \A i \in 1..Len(after) : WithoutCounters(after[i]) = WithoutCounters(before[f[i]])

====
